---------------------------- MODULE Spec2Model ----------------------------
(***************************************************************************)
(* Click & Collect notification system.                                    *)
(*                                                                         *)
(* Three parts are modelled:                                               *)
(*   - the Collection Service with its Request Store and Notification      *)
(*     Channel (the Python backend; modelled from the specification),      *)
(*   - the customer submission client (frontend/dashboard/Customer.tsx),   *)
(*   - the staff monitoring client (the StaffDashboard component).         *)
(*                                                                         *)
(* Text values are sequences of one-character strings, so that trimming    *)
(* is computed and not assumed.  HTTP requests and socket events are in    *)
(* flight between the step that sends them and the step that handles them. *)
(***************************************************************************)
EXTENDS Integers, Sequences, FiniteSets, TLC

\* ------------------------------------------------------------------ bounds
\* Number of records the Store ever creates (ids 1..MaxRecords).
MaxRecords == 2
\* Number of Store mutations that take a timestamp.
MaxClock == 3
\* List fetches one staff client has in flight.
MaxFetches == 2
\* Completion requests one staff client has in flight.
MaxPatches == 1
\* Number of records created while staff clients are watched.
StaffRecords == 1

\* ------------------------------------------------------------------ inputs
Staff == {"s1", "s2"}

\* Text a user can type or a caller can send: empty, blank, padded, plain.
NameInputs == { <<>>, <<" ", "a">> }
CodeInputs == { <<" ">>, <<"x">> }

\* The 'Fill Test Data' values ('Test User', 'MNS-20251024-TEST01'), shortened
\* to one character each: neither is blank, neither is padded.
TestUser == <<"a">>
TestBarcode == <<"x">>

Ids == 1..(MaxRecords + 1)

\* ------------------------------------------------------------------ values
Null == [kind |-> "null"]
NotFound == [kind |-> "not_found"]
NoRequest == [state |-> "none"]
Unparseable == [kind |-> "unparseable"]

IsRecord(b) == DOMAIN b = {"id", "customer_name", "barcode", "status", "created_at", "updated_at"}

\* ------------------------------------------------------------------ text
IsSpace(c) == c = " "

RECURSIVE TrimStart(_)
TrimStart(s) == IF s # <<>> /\ IsSpace(Head(s)) THEN TrimStart(Tail(s)) ELSE s

RECURSIVE TrimEnd(_)
TrimEnd(s) ==
    IF s # <<>> /\ IsSpace(s[Len(s)]) THEN TrimEnd(SubSeq(s, 1, Len(s) - 1)) ELSE s

\* String.prototype.trim
trim(s) == TrimEnd(TrimStart(s))

VARIABLES
    \* Request Store and Collection Service
    store,          \* sequence of CollectionRequest records, in creation order
    nextId,         \* the id the next created record gets
    clock,          \* the Store's time: the last timestamp handed out
    issued,         \* ids returned by successful submitCollection calls, in order
    last,           \* the last direct call of the REST surface and its response
    \* Notification Channel
    subscribers,    \* staff clients in the active set
    chan,           \* chan[s]: events sent to s and not yet handled by it
    \* Customer submission client (CustomerInterface state)
    step, customerName, barcode, loading, error, collectionData,
    post,           \* the client's latest POST /api/collect, until it settles
    inFlight,       \* number of the client's POSTs sent and not yet settled
    \* Staff monitoring clients (StaffDashboard state, one per staff member)
    mounted,        \* mounted[s]: the component's effect has run
    collections, notifications, connected, staffLoading,
    dropped,        \* dropped[s]: the socket of s has seen a 'disconnect'
    fetches,        \* fetches[s]: GET /api/collections requests of s in flight
    patches         \* patches[s]: PATCH .../complete requests of s in flight

serviceVars == <<store, nextId, clock, issued, last>>
channelVars == <<subscribers, chan>>
customerVars == <<step, customerName, barcode, loading, error, collectionData, post, inFlight>>
staffVars == <<mounted, collections, notifications, connected, staffLoading, dropped,
               fetches, patches>>
vars == <<serviceVars, channelVars, customerVars, staffVars>>

\* ------------------------------------------------------------------ Request Store
\* The Store's time advances with every mutation: two mutations never carry
\* the same timestamp.
StoreHas(st, id) == \E i \in 1..Len(st) : st[i].id = id

StoreGet(st, id) ==
    IF StoreHas(st, id) THEN st[CHOOSE i \in 1..Len(st) : st[i].id = id] ELSE NotFound

StoreCreate(name, code, id, now) ==
    [id |-> id, customer_name |-> name, barcode |-> code, status |-> "ready",
     created_at |-> now, updated_at |-> now]

\* StoreUpdate that forgets to refresh updated_at.
StoreUpdateStale(rec, status, now) == [rec EXCEPT !.status = status]

\* StoreUpdate that toggles a collected record back to ready.
StoreUpdateToggle(rec, status, now) ==
    [rec EXCEPT !.status = IF rec.status = "collected" THEN "ready" ELSE status,
                !.updated_at = now]

StoreUpdate(rec, status, now) == [rec EXCEPT !.status = status, !.updated_at = now]

StoreReplace(st, rec) == [i \in 1..Len(st) |-> IF st[i].id = rec.id THEN rec ELSE st[i]]

StoreDelete(st, id) == SelectSeq(st, LAMBDA r : r.id # id)

StoreList(st, statusFilter) ==
    IF statusFilter = "" THEN st ELSE SelectSeq(st, LAMBDA r : r.status = statusFilter)

\* NextIdAfter that takes the largest id still stored, plus one.
NextIdReuse(id, st) ==
    IF st = <<>> THEN 1
    ELSE 1 + (CHOOSE m \in {st[i].id : i \in DOMAIN st} :
                 \A i \in DOMAIN st : st[i].id <= m)

\* The id after `id`: ids are assigned monotonically and never reused.
NextIdAfter(id, st) == id + 1

\* ------------------------------------------------------------------ Notification Channel
Event(type, payload) == [type |-> type, data |-> payload]

\* Deliver to every active subscriber; nothing is kept for the others.
Broadcast(type, payload) ==
    [s \in Staff |-> IF s \in subscribers THEN Append(chan[s], Event(type, payload))
                     ELSE chan[s]]

\* ------------------------------------------------------------------ Collection Service
Valid(name, code) == trim(name) # <<>> /\ trim(code) # <<>>

\* The created record: Store.create with the next id and the current time.
Created(name, code) == StoreCreate(name, code, nextId, clock + 1)

\* The completed record: Store.update(id, collected) at the current time.
Completed(id) == StoreUpdate(StoreGet(store, id), "collected", clock + 1)

\* What each operation answers, computed in the state it is called in.
SubmitResponse(name, code) ==
    IF ~Valid(name, code)
    THEN [status |-> 422, body |-> [detail |-> "customer_name and barcode are required"]]
    ELSE [status |-> 200, body |-> Created(name, code)]

\* CompleteResponse that refuses a record that is already collected.
CompleteResponseOnce(id) ==
    IF ~StoreHas(store, id)
    THEN [status |-> 404, body |-> [detail |-> "Collection not found"]]
    ELSE IF StoreGet(store, id).status = "collected"
    THEN [status |-> 409, body |-> [detail |-> "Collection already completed"]]
    ELSE [status |-> 200, body |-> Completed(id)]

CompleteResponse(id) ==
    IF ~StoreHas(store, id)
    THEN [status |-> 404, body |-> [detail |-> "Collection not found"]]
    ELSE [status |-> 200, body |-> Completed(id)]

RemoveResponse(id) ==
    IF ~StoreHas(store, id)
    THEN [status |-> 404, body |-> [detail |-> "Collection not found"]]
    ELSE [status |-> 200, body |-> [message |-> "Collection deleted"]]

\* What each operation does to the Store and the Channel.
submitCollection(name, code) ==
    IF ~Valid(name, code)
    THEN UNCHANGED <<store, nextId, clock, issued, chan>>
    ELSE /\ store' = Append(store, Created(name, code))
         /\ nextId' = NextIdAfter(nextId, store)
         /\ clock' = clock + 1
         /\ issued' = Append(issued, Created(name, code).id)
         /\ chan' = Broadcast("new_collection", Created(name, code))

completeCollection(id) ==
    IF ~StoreHas(store, id)
    THEN UNCHANGED <<store, nextId, clock, issued, chan>>
    ELSE /\ store' = StoreReplace(store, Completed(id))
         /\ clock' = clock + 1
         /\ chan' = Broadcast("collection_completed", Completed(id))
         /\ UNCHANGED <<nextId, issued>>

\* removeCollection that announces the deletion on the channel.
removeCollectionAnnounced(id) ==
    IF ~StoreHas(store, id)
    THEN UNCHANGED <<store, nextId, clock, issued, chan>>
    ELSE /\ store' = StoreDelete(store, id)
         /\ chan' = Broadcast("collection_completed", StoreGet(store, id))
         /\ UNCHANGED <<nextId, clock, issued>>

removeCollection(id) ==
    IF ~StoreHas(store, id)
    THEN UNCHANGED <<store, nextId, clock, issued, chan>>
    ELSE /\ store' = StoreDelete(store, id)
         /\ UNCHANGED <<nextId, clock, issued, chan>>

\* A pure read: the response body of GET /api/collections?status=.
listCollections(statusFilter) == [collections |-> StoreList(store, statusFilter)]

\* Room for one more record and one more timestamp.
CanCreate(name, code) == Valid(name, code) => (nextId <= MaxRecords /\ clock < MaxClock)
CanUpdate(id) == StoreHas(store, id) => clock < MaxClock

\* ------------------------------------------------------------------ direct API callers
Call(op, args, response) ==
    [op |-> op, args |-> args, status |-> response.status, body |-> response.body]

ApiSubmit(name, code) ==
    /\ CanCreate(name, code)
    /\ submitCollection(name, code)
    /\ last' = Call("submit", <<name, code>>, SubmitResponse(name, code))
    /\ UNCHANGED <<subscribers, customerVars, staffVars>>

ApiComplete(id) ==
    /\ CanUpdate(id)
    /\ completeCollection(id)
    /\ last' = Call("complete", <<id>>, CompleteResponse(id))
    /\ UNCHANGED <<subscribers, customerVars, staffVars>>

ApiRemove(id) ==
    /\ removeCollection(id)
    /\ last' = Call("remove", <<id>>, RemoveResponse(id))
    /\ UNCHANGED <<subscribers, customerVars, staffVars>>

\* ------------------------------------------------------------------ customer client
onChangeName(v) ==
    /\ step = "input" /\ ~loading
    /\ customerName' = v
    /\ UNCHANGED <<serviceVars, channelVars, staffVars, step, barcode, loading, error,
                   collectionData, post, inFlight>>

onChangeBarcode(v) ==
    /\ step = "input" /\ ~loading
    /\ barcode' = v
    /\ UNCHANGED <<serviceVars, channelVars, staffVars, step, customerName, loading, error,
                   collectionData, post, inFlight>>

FillTestData ==
    /\ step = "input"
    /\ customerName' = TestUser
    /\ barcode' = TestBarcode
    /\ UNCHANGED <<serviceVars, channelVars, staffVars, step, loading, error,
                   collectionData, post, inFlight>>

\* FormFilled without the trimming.
FormFilledUntrimmed(name, code) == name # <<>> /\ code # <<>>

\* The check at the top of handleSubmit: both fields non-empty after trimming.
FormFilled(name, code) == trim(name) # <<>> /\ trim(code) # <<>>

\* handleSubmit that sends the request without setLoading(true) and
\* setStep('scanning'): the form stays on screen and enabled.
handleSubmitUnlocked ==
    IF ~FormFilled(customerName, barcode)
    THEN /\ error' = "Please enter both your name and barcode"
         /\ UNCHANGED <<step, customerName, barcode, loading, collectionData, post, inFlight>>
    ELSE /\ error' = ""
         /\ post' = [state |-> "sent", customer_name |-> trim(customerName),
                     barcode |-> trim(barcode)]
         /\ inFlight' = inFlight + 1
         /\ UNCHANGED <<step, loading, customerName, barcode, collectionData>>

\* handleSubmit up to its await: validate, then send POST /api/collect.
handleSubmit ==
    IF ~FormFilled(customerName, barcode)
    THEN /\ error' = "Please enter both your name and barcode"
         /\ UNCHANGED <<step, customerName, barcode, loading, collectionData, post, inFlight>>
    ELSE /\ loading' = TRUE
         /\ error' = ""
         /\ step' = "scanning"
         /\ post' = [state |-> "sent", customer_name |-> trim(customerName),
                     barcode |-> trim(barcode)]
         /\ inFlight' = inFlight + 1
         /\ UNCHANGED <<customerName, barcode, collectionData>>

ClickRequestCollection ==
    /\ step = "input" /\ ~loading
    /\ handleSubmit
    /\ UNCHANGED <<serviceVars, channelVars, staffVars>>

handleKeyPress(key) ==
    /\ step = "input" /\ ~loading
    /\ IF key = "Enter" /\ ~loading THEN handleSubmit ELSE UNCHANGED customerVars
    /\ UNCHANGED <<serviceVars, channelVars, staffVars>>

\* The Service handles the client's POST.
HandleCollect ==
    /\ post.state = "sent"
    /\ CanCreate(post.customer_name, post.barcode)
    /\ submitCollection(post.customer_name, post.barcode)
    /\ post' = [state |-> "response",
                ok |-> SubmitResponse(post.customer_name, post.barcode).status = 200,
                body |-> SubmitResponse(post.customer_name, post.barcode).body]
    /\ UNCHANGED <<last, subscribers, staffVars, step, customerName, barcode, loading, error,
                   collectionData, inFlight>>

\* The request or its response is lost: fetch rejects.
PostNetworkFailure ==
    /\ post.state \in {"sent", "response"}
    /\ post' = [state |-> "rejected"]
    /\ UNCHANGED <<serviceVars, channelVars, staffVars, step, customerName, barcode, loading,
                   error, collectionData, inFlight>>

\* Something in front of the Service answers with an error of its own.
PostErrorResponse(body) ==
    /\ post.state = "sent"
    /\ post' = [state |-> "response", ok |-> FALSE, body |-> body]
    /\ UNCHANGED <<serviceVars, channelVars, staffVars, step, customerName, barcode, loading,
                   error, collectionData, inFlight>>

ErrorBodies == { [detail |-> "Internal error"], [detail |-> ""], Unparseable }

\* DetailOr without the fallback: data.detail alone.
DetailOnly(data, fallback) == IF "detail" \in DOMAIN data THEN data.detail ELSE ""

\* data.detail || fallback
DetailOr(data, fallback) ==
    IF "detail" \in DOMAIN data /\ data.detail # "" THEN data.detail ELSE fallback

\* ResponseOk that takes every parsed response for a success.
ResponseOkAlways(r) == TRUE

\* response.ok decides between the success and the error panel.
ResponseOk(r) == r.ok

\* handleSubmit after its await: the response, or the rejection, arrives.
handleSubmitSettled ==
    /\ post.state \in {"response", "rejected"}
    /\ IF post.state = "rejected" \/ post.body = Unparseable
       THEN /\ error' = "Unable to connect to server. Please try again."
            /\ step' = "error"
            /\ UNCHANGED collectionData
       ELSE IF ResponseOk(post)
       THEN /\ collectionData' = post.body
            /\ step' = "success"
            /\ UNCHANGED error
       ELSE /\ error' = DetailOr(post.body, "Failed to process collection request")
            /\ step' = "error"
            /\ UNCHANGED collectionData
    /\ loading' = FALSE
    /\ post' = NoRequest
    /\ inFlight' = inFlight - 1
    /\ UNCHANGED <<serviceVars, channelVars, staffVars, customerName, barcode>>

handleReset ==
    /\ \/ step = "success" /\ collectionData # Null
       \/ step = "error"
    /\ step' = "input"
    /\ customerName' = <<>>
    /\ barcode' = <<>>
    /\ error' = ""
    /\ collectionData' = Null
    /\ UNCHANGED <<serviceVars, channelVars, staffVars, loading, post, inFlight>>

\* ------------------------------------------------------------------ staff client
\* A StaffDashboard between its mount and its unmount.  The wall-clock fields
\* of a notification (id: Date.now(), timestamp) and the display filter are
\* left out: no handler reads them.
\* notifications keep the 10 most recent entries.
NotificationLimit == 10

Take(seq, n) == SubSeq(seq, 1, IF Len(seq) < n THEN Len(seq) ELSE n)

RemoveAt(seq, i) == SubSeq(seq, 1, i - 1) \o SubSeq(seq, i + 1, Len(seq))

ReplaceAt(seq, i, x) == [seq EXCEPT ![i] = x]

\* fetchCollections up to its await: send GET /api/collections.
fetchCollections(s) ==
    /\ Len(fetches[s]) < MaxFetches
    /\ fetches' = [fetches EXCEPT ![s] = Append(@, [state |-> "sent"])]

\* The effect run at mount: fetch the list, open the socket.
Mount(s) ==
    /\ ~mounted[s]
    /\ mounted' = [mounted EXCEPT ![s] = TRUE]
    /\ fetchCollections(s)
    /\ UNCHANGED <<serviceVars, channelVars, customerVars, collections, notifications,
                   connected, staffLoading, dropped, patches>>

\* The channel is established: the Service adds s to the active set and the
\* client's 'connect' handler runs.
onConnect(s) ==
    /\ mounted[s] /\ s \notin subscribers
    /\ subscribers' = subscribers \cup {s}
    /\ connected' = [connected EXCEPT ![s] = TRUE]
    /\ UNCHANGED <<serviceVars, chan, customerVars, mounted, collections, notifications,
                   staffLoading, dropped, fetches, patches>>

\* The channel drops: s leaves the active set, events on their way to it are
\* lost, and the client's 'disconnect' handler runs.
onDisconnect(s) ==
    /\ s \in subscribers
    /\ subscribers' = subscribers \ {s}
    /\ chan' = [chan EXCEPT ![s] = <<>>]
    /\ connected' = [connected EXCEPT ![s] = FALSE]
    /\ dropped' = [dropped EXCEPT ![s] = TRUE]
    /\ UNCHANGED <<serviceVars, customerVars, mounted, collections, notifications,
                   staffLoading, fetches, patches>>

\* Notification that keeps the message and drops the payload.
NotificationWithoutData(data) ==
    [type |-> "new", message |-> data.customer_name \o <<" is waiting for collection">>,
     data |-> Null]

Notification(data) ==
    [type |-> "new", message |-> data.customer_name \o <<" is waiting for collection">>,
     data |-> data]

onNewCollection(s) ==
    /\ chan[s] # <<>> /\ Head(chan[s]).type = "new_collection"
    /\ notifications' = [notifications EXCEPT
           ![s] = Take(<<Notification(Head(chan[s]).data)>> \o @, NotificationLimit)]
    /\ fetchCollections(s)
    /\ chan' = [chan EXCEPT ![s] = Tail(@)]
    /\ UNCHANGED <<serviceVars, subscribers, customerVars, mounted, collections, connected,
                   staffLoading, dropped, patches>>

onCollectionCompleted(s) ==
    /\ chan[s] # <<>> /\ Head(chan[s]).type = "collection_completed"
    /\ fetchCollections(s)
    /\ chan' = [chan EXCEPT ![s] = Tail(@)]
    /\ UNCHANGED <<serviceVars, subscribers, customerVars, mounted, collections,
                   notifications, connected, staffLoading, dropped, patches>>

ClickRefresh(s) ==
    /\ mounted[s]
    /\ fetchCollections(s)
    /\ UNCHANGED <<serviceVars, channelVars, customerVars, mounted, collections,
                   notifications, connected, staffLoading, dropped, patches>>

\* The Service handles a GET /api/collections of s.
HandleList(s, i) ==
    /\ i \in DOMAIN fetches[s] /\ fetches[s][i].state = "sent"
    /\ fetches' = [fetches EXCEPT ![s] = ReplaceAt(@, i,
           [state |-> "response", ok |-> TRUE, body |-> listCollections("")])]
    /\ UNCHANGED <<serviceVars, channelVars, customerVars, mounted, collections, notifications,
                   connected, staffLoading, dropped, patches>>

ListNetworkFailure(s, i) ==
    /\ i \in DOMAIN fetches[s] /\ fetches[s][i].state = "sent"
    /\ fetches' = [fetches EXCEPT ![s] = ReplaceAt(@, i, [state |-> "rejected"])]
    /\ UNCHANGED <<serviceVars, channelVars, customerVars, mounted, collections,
                   notifications, connected, staffLoading, dropped, patches>>

ListErrorResponse(s, i, body) ==
    /\ i \in DOMAIN fetches[s] /\ fetches[s][i].state = "sent"
    /\ fetches' = [fetches EXCEPT
           ![s] = ReplaceAt(@, i, [state |-> "response", ok |-> FALSE, body |-> body])]
    /\ UNCHANGED <<serviceVars, channelVars, customerVars, mounted, collections,
                   notifications, connected, staffLoading, dropped, patches>>

ListErrorBodies == { [detail |-> "Internal error"], Unparseable }

\* data.collections || []
CollectionsOr(data) == IF "collections" \in DOMAIN data THEN data.collections ELSE <<>>

\* What setCollections receives from a parsed response.
FetchedList(r) == CollectionsOr(r.body)

\* fetchCollections after its await, for the i-th request in flight.
fetchCollectionsSettled(s, i) ==
    /\ i \in DOMAIN fetches[s] /\ fetches[s][i].state \in {"response", "rejected"}
    /\ IF fetches[s][i].state = "rejected" \/ fetches[s][i].body = Unparseable
       THEN UNCHANGED collections
       ELSE collections' = [collections EXCEPT ![s] = FetchedList(fetches[s][i])]
    /\ staffLoading' = [staffLoading EXCEPT ![s] = FALSE]
    /\ fetches' = [fetches EXCEPT ![s] = RemoveAt(@, i)]
    /\ UNCHANGED <<serviceVars, channelVars, customerVars, mounted, notifications,
                   connected, dropped, patches>>

CachedIds(s) == { collections[s][i].id : i \in DOMAIN collections[s] }

\* completeCollection(id) up to its await: send PATCH /api/collections/{id}/complete.
\* The id comes from a row of the cached list, which may be stale.
clickComplete(s, id) ==
    /\ id \in CachedIds(s)
    /\ Len(patches[s]) < MaxPatches
    /\ patches' = [patches EXCEPT ![s] = Append(@, [state |-> "sent", id |-> id])]
    /\ UNCHANGED <<serviceVars, channelVars, customerVars, mounted, collections,
                   notifications, connected, staffLoading, dropped, fetches>>

\* The Service handles a PATCH of s.
HandleComplete(s, i) ==
    /\ i \in DOMAIN patches[s] /\ patches[s][i].state = "sent"
    /\ CanUpdate(patches[s][i].id)
    /\ completeCollection(patches[s][i].id)
    /\ patches' = [patches EXCEPT ![s] = ReplaceAt(@, i,
           [state |-> "response", id |-> patches[s][i].id,
            ok |-> CompleteResponse(patches[s][i].id).status = 200])]
    /\ UNCHANGED <<last, subscribers, customerVars, mounted, collections, notifications,
                   connected, staffLoading, dropped, fetches>>

PatchNetworkFailure(s, i) ==
    /\ i \in DOMAIN patches[s] /\ patches[s][i].state = "sent"
    /\ patches' = [patches EXCEPT
           ![s] = ReplaceAt(@, i, [state |-> "rejected", id |-> patches[s][i].id])]
    /\ UNCHANGED <<serviceVars, channelVars, customerVars, mounted, collections,
                   notifications, connected, staffLoading, dropped, fetches>>

\* RefetchAfter that re-fetches after every response.
RefetchAfterAny(r) == r.state = "response"

\* The staff client re-fetches after a completion only on an ok response.
RefetchAfter(r) == r.state = "response" /\ r.ok

\* completeCollection(id) after its await.
completeCollectionSettled(s, i) ==
    /\ i \in DOMAIN patches[s] /\ patches[s][i].state \in {"response", "rejected"}
    /\ IF RefetchAfter(patches[s][i]) THEN fetchCollections(s) ELSE UNCHANGED fetches
    /\ patches' = [patches EXCEPT ![s] = RemoveAt(@, i)]
    /\ UNCHANGED <<serviceVars, channelVars, customerVars, mounted, collections,
                   notifications, connected, staffLoading, dropped>>

\* ------------------------------------------------------------------ specification
Init ==
    /\ store = <<>>
    /\ nextId = 1
    /\ clock = 0
    /\ issued = <<>>
    /\ last = [op |-> "none", args |-> <<>>, status |-> 0, body |-> Null]
    /\ subscribers = {}
    /\ chan = [s \in Staff |-> <<>>]
    /\ step = "input"
    /\ customerName = <<>>
    /\ barcode = <<>>
    /\ loading = FALSE
    /\ error = ""
    /\ collectionData = Null
    /\ post = NoRequest
    /\ inFlight = 0
    /\ mounted = [s \in Staff |-> FALSE]
    /\ collections = [s \in Staff |-> <<>>]
    /\ notifications = [s \in Staff |-> <<>>]
    /\ connected = [s \in Staff |-> FALSE]
    /\ staffLoading = [s \in Staff |-> TRUE]
    /\ dropped = [s \in Staff |-> FALSE]
    /\ fetches = [s \in Staff |-> <<>>]
    /\ patches = [s \in Staff |-> <<>>]

\* Callers of the REST surface other than the two clients.
ServiceNext ==
    \/ \E name \in NameInputs, code \in CodeInputs : ApiSubmit(name, code)
    \/ \E id \in Ids : ApiComplete(id)
    \/ \E id \in Ids : ApiRemove(id)

CustomerNext ==
    \/ \E v \in NameInputs : onChangeName(v)
    \/ \E v \in CodeInputs : onChangeBarcode(v)
    \/ FillTestData
    \/ ClickRequestCollection
    \/ \E key \in {"Enter", "a"} : handleKeyPress(key)
    \/ HandleCollect
    \/ PostNetworkFailure
    \/ \E body \in ErrorBodies : PostErrorResponse(body)
    \/ handleSubmitSettled
    \/ handleReset

FetchSlots == 1..(MaxFetches + 1)
PatchSlots == 1..(MaxPatches + 1)

StaffNext(S) ==
    \/ \E s \in S : Mount(s)
    \/ \E s \in S : onConnect(s)
    \/ \E s \in S : onDisconnect(s)
    \/ \E s \in S : onNewCollection(s)
    \/ \E s \in S : onCollectionCompleted(s)
    \/ \E s \in S : ClickRefresh(s)
    \/ \E s \in S, i \in FetchSlots : HandleList(s, i)
    \/ \E s \in S, i \in FetchSlots : ListNetworkFailure(s, i)
    \/ \E s \in S, i \in FetchSlots, body \in ListErrorBodies : ListErrorResponse(s, i, body)
    \/ \E s \in S, i \in FetchSlots : fetchCollectionsSettled(s, i)
    \/ \E s \in S, id \in Ids : clickComplete(s, id)
    \/ \E s \in S, i \in PatchSlots : HandleComplete(s, i)
    \/ \E s \in S, i \in PatchSlots : PatchNetworkFailure(s, i)
    \/ \E s \in S, i \in PatchSlots : completeCollectionSettled(s, i)
    \/ \E name \in NameInputs : nextId <= StaffRecords /\ ApiSubmit(name, <<"x">>)
    \/ \E id \in Ids : ApiRemove(id)

Next == ServiceNext \/ CustomerNext

\* The Service under direct calls and the customer client.
Spec == Init /\ [][Next]_vars

\* One staff client against the Service.
SpecStaff == Init /\ [][StaffNext({"s1"})]_vars

\* Two staff clients on a reliable network: no request fails, no channel drops.
PairNext ==
    \/ \E s \in Staff : Mount(s)
    \/ \E s \in Staff : onConnect(s)
    \/ \E s \in Staff : onNewCollection(s)
    \/ \E s \in Staff : onCollectionCompleted(s)
    \/ \E s \in Staff, i \in FetchSlots : HandleList(s, i)
    \/ \E s \in Staff, i \in FetchSlots : fetchCollectionsSettled(s, i)
    \/ \E s \in Staff, id \in Ids : clickComplete(s, id)
    \/ \E s \in Staff, i \in PatchSlots : HandleComplete(s, i)
    \/ \E s \in Staff, i \in PatchSlots : completeCollectionSettled(s, i)
    \/ \E name \in NameInputs : nextId <= StaffRecords /\ ApiSubmit(name, <<"x">>)

SpecPair == Init /\ [][PairNext]_vars

\* One staff client that stays connected on a reliable network: no request
\* fails, the channel never drops, and records are only added while the client
\* is subscribed, so it is sent an event for every change of the Store.
LiveNext ==
    \/ Mount("s1")
    \/ onConnect("s1")
    \/ onNewCollection("s1")
    \/ onCollectionCompleted("s1")
    \/ ClickRefresh("s1")
    \/ \E i \in FetchSlots : HandleList("s1", i)
    \/ \E i \in FetchSlots : fetchCollectionsSettled("s1", i)
    \/ \E id \in Ids : clickComplete("s1", id)
    \/ \E i \in PatchSlots : HandleComplete("s1", i)
    \/ \E i \in PatchSlots : completeCollectionSettled("s1", i)
    \/ \E name \in NameInputs : "s1" \in subscribers /\ ApiSubmit(name, <<"x">>)

SpecLive == Init /\ [][LiveNext]_vars

\* ------------------------------------------------------------------ properties
Range(seq) == { seq[i] : i \in DOMAIN seq }

TypedNames == NameInputs \cup {TestUser, trim(<<" ", "a">>)}
TypedCodes == CodeInputs \cup {TestBarcode}

Blank(name, code) == trim(name) = <<>> \/ trim(code) = <<>>

\* C2: a submit with a name or barcode that is empty after trimming answers
\* 422 (ValidationError) and leaves the Store as it was; on the customer
\* client such a submit sends no request and the step stays 'input'.
C2_BlankSubmitRejected ==
    [][ /\ \A name \in NameInputs, code \in CodeInputs :
               (ApiSubmit(name, code) /\ Blank(name, code)) =>
                   (last'.status = 422 /\ store' = store /\ nextId' = nextId)
        /\ ((ClickRequestCollection \/ handleKeyPress("Enter"))
               /\ Blank(customerName, barcode)) =>
                   (post' = NoRequest /\ step' = "input" /\ store' = store)
        /\ post'.state = "sent" => ~Blank(post'.customer_name, post'.barcode)
      ]_vars

\* C2 witness: the Service has answered 422 and the client has refused a
\* blank barcode without sending anything.
C2_Witness ==
    /\ last.op = "submit" /\ last.status = 422
    /\ step = "input" /\ post = NoRequest
    /\ error = "Please enter both your name and barcode"
    /\ trim(customerName) # <<>> /\ barcode # <<>> /\ trim(barcode) = <<>>

Statuses(st) == { st[i].status : i \in DOMAIN st }

Count(seq, type) == Cardinality({ i \in DOMAIN seq : seq[i].type = type })

\* C3: a successful submitCollection appends exactly one new_collection
\* event, carrying the returned record, to the channel of every staff client
\* subscribed at that moment and to no other; no other step, a failed submit
\* included, adds a new_collection event; and a client that handles the event
\* sees that payload.
C3_SubmitBroadcastsOnce ==
    [][ /\ Len(issued') > Len(issued) =>
               \A s \in Staff :
                   chan'[s] = IF s \in subscribers
                              THEN Append(chan[s], [type |-> "new_collection",
                                                    data |-> last'.body])
                              ELSE chan[s]
        /\ Len(issued') = Len(issued) =>
               \A s \in Staff :
                   Count(chan'[s], "new_collection") <= Count(chan[s], "new_collection")
        /\ \A s \in Staff :
               onNewCollection(s) =>
                   /\ notifications'[s] # <<>>
                   /\ notifications'[s][1].data = Head(chan[s]).data
                   /\ Len(notifications'[s]) = Len(notifications[s]) + 1
      ]_vars

\* C3 witness: both staff clients were subscribed when the record was
\* submitted, and both have handled the event with the record as payload.
C3_Witness ==
    /\ last.op = "submit" /\ last.status = 200
    /\ \A s \in Staff :
           /\ Len(notifications[s]) = 1
           /\ notifications[s][1].data = last.body

\* C6: completeCollection(id) for an id that is not in the Store answers
\* non-ok (NotFound) and leaves the Store and the channel as they were, and
\* the staff client that gets a non-ok answer starts no list fetch.
C6_CompleteMissingId ==
    [][ \A s \in Staff, i \in PatchSlots :
            /\ (HandleComplete(s, i) /\ ~StoreHas(store, patches[s][i].id)) =>
                   /\ store' = store /\ chan' = chan /\ clock' = clock
                   /\ patches'[s][i].state = "response" /\ ~patches'[s][i].ok
            /\ (completeCollectionSettled(s, i) /\ patches[s][i].state = "response"
                   /\ ~patches[s][i].ok) =>
                   fetches'[s] = fetches[s]
      ]_vars

\* C6 witness: a staff client has completed an id from its cached list that
\* was deleted in the meantime, and holds the non-ok answer.
C6_Witness ==
    \E i \in DOMAIN patches["s1"] :
        /\ patches["s1"][i].state = "response" /\ ~patches["s1"][i].ok
        /\ patches["s1"][i].id \in CachedIds("s1")
        /\ patches["s1"][i].id \in Range(issued)
        /\ ~StoreHas(store, patches["s1"][i].id)

\* C7: removeCollection(id) on an existing record removes it, so that get(id)
\* then yields not-found; on an id that is not in the Store it answers 404
\* and changes nothing; neither case puts an event on the channel.
C7_RemoveCollection ==
    [][ \A id \in Ids :
            ApiRemove(id) =>
                /\ chan' = chan
                /\ StoreGet(store', id) = NotFound
                /\ StoreHas(store, id) =>
                       (last'.status = 200 /\ store' = StoreDelete(store, id))
                /\ ~StoreHas(store, id) =>
                       (last'.status = 404 /\ store' = store /\ clock' = clock
                            /\ nextId' = nextId)
      ]_vars

\* C7 witness: a record was deleted while a staff client was subscribed, and
\* nothing is on its way to that client.
C7_Witness ==
    /\ last.op = "remove" /\ last.status = 200
    /\ last.args[1] \in Range(issued)
    /\ StoreGet(store, last.args[1]) = NotFound
    /\ "s1" \in subscribers /\ chan["s1"] = <<>>
    /\ notifications["s1"] # <<>>

\* C8: completeCollection(id) on an existing record succeeds whatever the
\* record's status, and leaves it collected; so two staff clients that
\* complete the same id at the same time both get an ok answer.
C8_CompleteAnyStatus ==
    [][ \A s \in Staff, i \in PatchSlots :
            (HandleComplete(s, i) /\ StoreHas(store, patches[s][i].id)) =>
                /\ patches'[s][i].state = "response" /\ patches'[s][i].ok
                /\ StoreGet(store', patches[s][i].id).status = "collected"
      ]_vars

\* C8 witness: both staff clients hold an ok answer for the same id, their
\* requests having been in flight together.
C8_Witness ==
    /\ patches["s1"] # <<>> /\ patches["s2"] # <<>>
    /\ patches["s1"][1].state = "response" /\ patches["s1"][1].ok
    /\ patches["s2"][1].state = "response" /\ patches["s2"][1].ok
    /\ patches["s1"][1].id = patches["s2"][1].id
    /\ StoreGet(store, patches["s1"][1].id).status = "collected"

\* C9: every reconnect of a staff client (a 'connect' after a 'disconnect')
\* starts a list fetch by that client.
C9_ReconnectRefetches ==
    [][ \A s \in Staff :
            (dropped[s] /\ ~connected[s] /\ connected'[s]) =>
                Len(fetches'[s]) = Len(fetches[s]) + 1
      ]_vars

\* A settled fetch that failed: rejected, an error response, an unreadable
\* body, or a body without collections.
FetchFailed(r) ==
    \/ r.state = "rejected"
    \/ /\ r.state = "response"
       /\ (~r.ok \/ r.body = Unparseable \/ "collections" \notin DOMAIN r.body)

\* C10: a list fetch that fails leaves the client's cached collections as
\* they were.
C10_FailedFetchKeepsList ==
    [][ \A s \in Staff, i \in FetchSlots :
            (fetchCollectionsSettled(s, i) /\ FetchFailed(fetches[s][i])) =>
                collections'[s] = collections[s]
      ]_vars

\* Nothing of the staff client s is outstanding: it is mounted and connected,
\* no event is on its way to it, and none of its requests is in flight.
Quiescent(s) ==
    /\ mounted[s] /\ connected[s] /\ ~dropped[s]
    /\ chan[s] = <<>>
    /\ fetches[s] = <<>>
    /\ patches[s] = <<>>

\* C11: once a continuously connected staff client has received every event
\* and all of its list fetches have completed successfully, its cached
\* collections list equals the Store's contents, whatever the order in which
\* the responses of concurrent fetches arrived.
C11_RefetchConverges ==
    Quiescent("s1") => collections["s1"] = listCollections("").collections

\* A submit request that did not succeed: fetch rejected, the body could not
\* be parsed, or the response was not ok.
SubmitFailed(r) ==
    \/ r.state = "rejected"
    \/ r.state = "response" /\ (r.body = Unparseable \/ ~r.ok)

\* C12: on the customer client every failure of a sent submit request (a
\* non-ok response, a network failure, an unparseable body) ends in step error
\* with a non-empty error message and loading false; from step error the only
\* thing the client can do is the retry, which returns to step input with
\* name, barcode, error and collectionData cleared; and step success is entered
\* only on an ok response, with collectionData set to the response body.
C12_SubmitFailureEndsInError ==
    [][ /\ (post.state \in {"response", "rejected"} /\ post' = NoRequest) =>
               IF SubmitFailed(post)
               THEN /\ step' = "error" /\ error' # "" /\ ~loading'
                    /\ collectionData' = collectionData
               ELSE /\ step' = "success" /\ ~loading'
                    /\ collectionData' = post.body
        /\ step = "error" => error # "" /\ ~loading /\ post = NoRequest
        /\ (step = "error" /\ customerVars' # customerVars) =>
               /\ step' = "input"
               /\ customerName' = <<>> /\ barcode' = <<>>
               /\ error' = "" /\ collectionData' = Null
        /\ (step' = "success" /\ step # "success") =>
               /\ post.state = "response" /\ post.ok /\ post.body # Unparseable
               /\ collectionData' = post.body
      ]_vars

\* The client shows the fallback message after a non-ok response without detail.
C12_Witness ==
    /\ step = "error" /\ ~loading /\ post = NoRequest
    /\ error = "Failed to process collection request"

\* The customer client holds a request exactly while it shows the scanning
\* panel, and never more than one.
SubmitLock ==
    /\ loading <=> step = "scanning"
    /\ inFlight \in {0, 1}
    /\ inFlight = 1 <=> step = "scanning"
    /\ inFlight = 0 <=> post = NoRequest

\* C13: a customer client never has more than one submit request in flight:
\* in every reachable state loading is true exactly while step is scanning, a
\* request is started only from step input with loading false and no request
\* outstanding, and the Service creates at most one record for a request the
\* client sent, which it handles once.
C13_OneSubmitInFlight ==
    [][ /\ SubmitLock /\ SubmitLock'
        /\ inFlight' > inFlight =>
               /\ step = "input" /\ ~loading
               /\ inFlight = 0 /\ post = NoRequest
               /\ post'.state = "sent"
        /\ (Len(issued') > Len(issued) /\ last' = last) =>
               /\ post.state = "sent" /\ post'.state = "response"
               /\ Len(issued') = Len(issued) + 1
               /\ inFlight' = inFlight
      ]_vars

\* A second submission of the same client is in flight, after the first one
\* was settled, and each of the two created one record.
C13_Witness ==
    /\ step = "scanning" /\ loading /\ inFlight = 1
    /\ post.state = "response" /\ post.ok
    /\ Len(issued) = 2 /\ last.op = "none"

=============================================================================
